---- MODULE Spec2Model ----
(***************************************************************************)
(* AthenaQueryResultParser (src/src/index.ts): the three static helpers    *)
(* headersFromMeta, rowToObject and isHeaderRow, and the stateful parser   *)
(* (initHeaders, getHeaders, parseResultSet, parseResultSetWith, reset).   *)
(*                                                                         *)
(* Representation of JavaScript values:                                    *)
(*   - a value that may be undefined/null is a sequence of length <= 1:    *)
(*     Nullish (<<>>) is undefined or null, Def(x) (<<x>>) is the value x; *)
(*   - an array is a sequence (index i of the code is position i + 1);     *)
(*   - an object with optional fields is a record of such optional values; *)
(*   - a ParsedRow (a Record<string, string | null>) is the sequence of    *)
(*     its [key, value] entries in insertion order, keys pairwise          *)
(*     distinct, as a JavaScript object keeps them;                        *)
(*   - a call's outcome is [threw, value]: threw = TRUE is a TypeError.    *)
(***************************************************************************)
EXTENDS Integers, Sequences, FiniteSets, TLC

\* Bounds of the explored inputs.
MaxCols == 2
MaxCells == 2
MaxRows == 2
MaxResets == 1

Nullish == <<>>
Def(x) == <<x>>
Val(o) == o[1]

\* a ?? b
Coalesce(o, d) == IF o = Nullish THEN d ELSE Val(o)

SeqsUpTo(S, n) == UNION {[1..k -> S] : k \in 0..n}

(***************************************************************************)
(* Static helpers                                                          *)
(***************************************************************************)

\* `col_${index}`
Placeholder(index) == "col_" \o ToString(index)

\* col?.Name
ColName(col) == IF col = Nullish THEN Nullish ELSE Val(col).Name

\* Variant: `||` in place of `??`, so that an empty name is replaced too.
headersFromMeta_falsy(columnInfo) ==
    [i \in 1..Len(columnInfo) |->
        IF ColName(columnInfo[i]) \in {Nullish, Def("")}
        THEN Placeholder(i - 1)
        ELSE Val(ColName(columnInfo[i]))]

headersFromMeta(columnInfo) ==
    [i \in 1..Len(columnInfo) |-> Coalesce(ColName(columnInfo[i]), Placeholder(i - 1))]

\* row.Data?.[index]?.VarCharValue ?? null, for a row that is an object.
\* index is the 0-based index of the code; the result is Nullish for null.
CellValue(row, index) ==
    LET data == Val(row).Data IN
    IF data = Nullish THEN Nullish
    ELSE IF index + 1 > Len(Val(data)) THEN Nullish
    ELSE IF Val(data)[index + 1] = Nullish THEN Nullish
    ELSE Val(Val(data)[index + 1]).VarCharValue

HasKey(obj, key) == \E k \in 1..Len(obj) : obj[k].key = key

\* obj[key] = value: an existing key keeps its place and takes the new value,
\* a new key is appended.
ObjSet(obj, key, value) ==
    IF HasKey(obj, key)
    THEN LET k == CHOOSE k \in 1..Len(obj) : obj[k].key = key IN
         SubSeq(obj, 1, k - 1) \o <<[key |-> key, value |-> value]>>
             \o SubSeq(obj, k + 1, Len(obj))
    ELSE Append(obj, [key |-> key, value |-> value])

\* obj[key]: Nullish when the key is missing or its value is null.
ObjGet(obj, key) ==
    IF HasKey(obj, key)
    THEN (CHOOSE e \in {obj[k] : k \in 1..Len(obj)} : e.key = key).value
    ELSE Nullish

Returned(v) == [threw |-> FALSE, value |-> v]
TypeError == [threw |-> TRUE, value |-> <<>>]

\* The loop of rowToObject from position i on, for a row that is an object.
RECURSIVE RowToObjectLoop(_, _, _, _)
RowToObjectLoop(row, hdrs, i, obj) ==
    IF i > Len(hdrs) THEN obj
    ELSE RowToObjectLoop(row, hdrs, i + 1, ObjSet(obj, hdrs[i], CellValue(row, i - 1)))

\* row.Data of an undefined row is a TypeError, raised in the first iteration.
rowToObject(row, hdrs) ==
    IF row = Nullish /\ Len(hdrs) > 0 THEN TypeError
    ELSE Returned(RowToObjectLoop(row, hdrs, 1, <<>>))

\* !row?.Data?.length
NoCells(row) ==
    \/ row = Nullish
    \/ Val(row).Data = Nullish
    \/ Len(Val(Val(row).Data)) = 0

\* Variant: the `!row?.Data?.length` test only guards an undefined row or a
\* missing Data, so a row with an empty Data matches an empty header list.
isHeaderRow_vacuous(row, hdrs) ==
    IF row = Nullish \/ Val(row).Data = Nullish THEN FALSE
    ELSE \A i \in 1..Len(hdrs) : CellValue(row, i - 1) = Def(hdrs[i])

isHeaderRow(row, hdrs) ==
    IF NoCells(row) THEN FALSE
    ELSE \A i \in 1..Len(hdrs) : CellValue(row, i - 1) = Def(hdrs[i])

(***************************************************************************)
(* The parser instance                                                     *)
(***************************************************************************)

VARIABLES
    headers,            \* this.headers: Nullish (null) or Def(header list)
    headerRowDropped,   \* this.headerRowDropped
    call,               \* the call that has just returned: its method (op) and
                        \* arguments; NoCall while the caller is between two calls
    ret,                \* what that call returned or threw
    pre,                \* the parser's fields when that call started
    fresh,              \* a parser constructed when this one was constructed or
                        \* last reset, given the same calls since
    freshRet,           \* what the last call returned on the fresh parser
    sessionDrops,       \* history: rows dropped as header rows since construction
                        \* or the last reset
    lifetimeDrops,      \* history: rows dropped as header rows since construction
    resets,             \* history: number of reset() calls
    established         \* history: a call made since construction or the last
                        \* reset was given a non-empty column list

vars == <<headers, headerRowDropped, call, ret, pre, fresh, freshRet,
          sessionDrops, lifetimeDrops, resets, established>>

\* The fields of a parser as a record, and the field initializers.
Parser(h, d) == [headers |-> h, headerRowDropped |-> d]
NewParser == Parser(Nullish, FALSE)
This == Parser(headers, headerRowDropped)

\* Variant: the `!this.headers` test is missing.
initHeaders_overwrite(p, columnInfo) ==
    IF Len(columnInfo) > 0
    THEN [p EXCEPT !.headers = Def(headersFromMeta(columnInfo))]
    ELSE p

\* Variant: the `columnInfo.length > 0` test is missing.
initHeaders_noLengthCheck(p, columnInfo) ==
    IF p.headers = Nullish
    THEN [p EXCEPT !.headers = Def(headersFromMeta(columnInfo))]
    ELSE p

initHeaders(p, columnInfo) ==
    IF p.headers = Nullish /\ Len(columnInfo) > 0
    THEN [p EXCEPT !.headers = Def(headersFromMeta(columnInfo))]
    ELSE p

\* Variant: `this.headers ?? []`, an empty list in place of null.
getHeaders_orEmpty(p) == Def(Coalesce(p.headers, <<>>))

getHeaders(p) == p.headers

\* Variant: `?? [{}]`, one unnamed column when the batch names none.
MetaColumns_unnamed(resultSet) ==
    LET m == Val(resultSet).ResultSetMetadata IN
    IF m = Nullish THEN <<Def([Name |-> Nullish])>>
    ELSE Coalesce(Val(m).ColumnInfo, <<Def([Name |-> Nullish])>>)

\* resultSet.ResultSetMetadata?.ColumnInfo ?? []
MetaColumns(resultSet) ==
    LET m == Val(resultSet).ResultSetMetadata IN
    IF m = Nullish THEN <<>> ELSE Coalesce(Val(m).ColumnInfo, <<>>)

\* resultSet.Rows ?? []
RawRows(resultSet) == Coalesce(Val(resultSet).Rows, <<>>)

\* rows.map((row) => rowToObject(row, headers)): the first row that throws ends
\* the call.
MapRows(rows, hdrs) ==
    IF \E k \in 1..Len(rows) : rowToObject(rows[k], hdrs).threw
    THEN TypeError
    ELSE Returned([k \in 1..Len(rows) |-> rowToObject(rows[k], hdrs).value])

\* The outcome of a call: the parser's fields after it, what it returned or
\* threw, and the number of rows it dropped as a header row.
Outcome(p, r, n) == [parser |-> p, result |-> r, dropped |-> n]

\* Variant: the `!this.headerRowDropped` test is missing.
parseResultSet_recheck(p, resultSet) ==
    IF resultSet = Nullish THEN Outcome(p, Returned(<<>>), 0)
    ELSE
      LET p1 == initHeaders(p, MetaColumns(resultSet)) IN
      IF p1.headers = Nullish THEN Outcome(p1, Returned(<<>>), 0)
      ELSE
        LET rawRows == RawRows(resultSet)
            skipHeader == /\ Len(rawRows) > 0
                          /\ isHeaderRow(rawRows[1], Val(p1.headers))
            p2 == IF skipHeader THEN [p1 EXCEPT !.headerRowDropped = TRUE] ELSE p1
            rows == IF skipHeader THEN Tail(rawRows) ELSE rawRows
        IN  Outcome(p2, MapRows(rows, Val(p1.headers)), IF skipHeader THEN 1 ELSE 0)

\* Variant: an absent result set clears the parser's fields before returning.
parseResultSet_resetOnAbsent(p, resultSet) ==
    IF resultSet = Nullish THEN Outcome(NewParser, Returned(<<>>), 0)
    ELSE
      LET p1 == initHeaders(p, MetaColumns(resultSet)) IN
      IF p1.headers = Nullish THEN Outcome(p1, Returned(<<>>), 0)
      ELSE
        LET rawRows == RawRows(resultSet)
            skipHeader == /\ ~p1.headerRowDropped
                          /\ Len(rawRows) > 0
                          /\ isHeaderRow(rawRows[1], Val(p1.headers))
            p2 == IF skipHeader THEN [p1 EXCEPT !.headerRowDropped = TRUE] ELSE p1
            rows == IF skipHeader THEN Tail(rawRows) ELSE rawRows
        IN  Outcome(p2, MapRows(rows, Val(p1.headers)), IF skipHeader THEN 1 ELSE 0)

\* Variant: the flag is set by any non-empty batch, whether or not its first
\* row is a header row.
parseResultSet_flagOnAnyRow(p, resultSet) ==
    IF resultSet = Nullish THEN Outcome(p, Returned(<<>>), 0)
    ELSE
      LET p1 == initHeaders(p, MetaColumns(resultSet)) IN
      IF p1.headers = Nullish THEN Outcome(p1, Returned(<<>>), 0)
      ELSE
        LET rawRows == RawRows(resultSet)
            skipHeader == /\ ~p1.headerRowDropped
                          /\ Len(rawRows) > 0
                          /\ isHeaderRow(rawRows[1], Val(p1.headers))
            p2 == IF Len(rawRows) > 0 THEN [p1 EXCEPT !.headerRowDropped = TRUE] ELSE p1
            rows == IF skipHeader THEN Tail(rawRows) ELSE rawRows
        IN  Outcome(p2, MapRows(rows, Val(p1.headers)), IF skipHeader THEN 1 ELSE 0)

parseResultSet(p, resultSet) ==
    IF resultSet = Nullish THEN Outcome(p, Returned(<<>>), 0)
    ELSE
      LET p1 == initHeaders(p, MetaColumns(resultSet)) IN
      IF p1.headers = Nullish THEN Outcome(p1, Returned(<<>>), 0)
      ELSE
        LET rawRows == RawRows(resultSet)
            skipHeader == /\ ~p1.headerRowDropped
                          /\ Len(rawRows) > 0
                          /\ isHeaderRow(rawRows[1], Val(p1.headers))
            p2 == IF skipHeader THEN [p1 EXCEPT !.headerRowDropped = TRUE] ELSE p1
            rows == IF skipHeader THEN Tail(rawRows) ELSE rawRows
        IN  Outcome(p2, MapRows(rows, Val(p1.headers)), IF skipHeader THEN 1 ELSE 0)

\* The callers' row parsers that are explored, (row) => string | null:
\*   keyCount  (row) => String(Object.keys(row).length)
\*   valueOfA  (row) => row.a ?? null
\*   skipAll   (row) => null
RowParsers == {"keyCount", "valueOfA", "skipAll"}

\* rowParser(row); Nullish is null.
ApplyRowParser(rowParser, row) ==
    CASE rowParser = "keyCount" -> Def(ToString(Len(row)))
      [] rowParser = "valueOfA" -> ObjGet(row, "a")
      [] rowParser = "skipAll" -> Nullish

\* Variant: a null result ends the loop (`break` in place of skipping the row).
RECURSIVE WithLoop_stopAtNull(_, _, _, _, _)
WithLoop_stopAtNull(rows, rowParser, i, results, calls) ==
    IF i > Len(rows) THEN [value |-> results, calls |-> calls]
    ELSE LET parsed == ApplyRowParser(rowParser, rows[i]) IN
         IF parsed = Nullish THEN [value |-> results, calls |-> calls + 1]
         ELSE WithLoop_stopAtNull(rows, rowParser, i + 1,
                                  Append(results, Val(parsed)), calls + 1)

\* The loop of parseResultSetWith from position i on; calls counts the
\* applications of rowParser.
RECURSIVE WithLoop(_, _, _, _, _)
WithLoop(rows, rowParser, i, results, calls) ==
    IF i > Len(rows) THEN [value |-> results, calls |-> calls]
    ELSE LET parsed == ApplyRowParser(rowParser, rows[i]) IN
         WithLoop(rows, rowParser, i + 1,
                  IF parsed # Nullish THEN Append(results, Val(parsed)) ELSE results,
                  calls + 1)

parseResultSetWith(p, resultSet, rowParser) ==
    LET o == parseResultSet(p, resultSet) IN
    IF o.result.threw THEN [o EXCEPT !.result = [threw |-> TRUE, value |-> <<>>, calls |-> 0]]
    ELSE LET l == WithLoop(o.result.value, rowParser, 1, <<>>, 0) IN
         [o EXCEPT !.result = [threw |-> FALSE, value |-> l.value, calls |-> l.calls]]

\* Variant: only the headers are cleared.
reset_keepFlag(p) == [p EXCEPT !.headers = Nullish]

reset(p) == NewParser

(***************************************************************************)
(* Inputs                                                                  *)
(***************************************************************************)

Names == {"a"}
OptNames == {Nullish} \cup {Def(n) : n \in Names}

\* ColumnInfo[] with Name present or missing.
ColumnInfos == SeqsUpTo({Def([Name |-> n]) : n \in OptNames}, MaxCols)

\* Datum[] with VarCharValue present or missing.
Datums == SeqsUpTo({Def([VarCharValue |-> v]) : v \in OptNames}, MaxCells)

\* A row: undefined, an object without Data, or an object with Data.
Rows == {Nullish, Def([Data |-> Nullish])} \cup {Def([Data |-> Def(d)]) : d \in Datums}

Metadatas ==
    {Nullish, Def([ColumnInfo |-> Nullish])}
        \cup {Def([ColumnInfo |-> Def(c)]) : c \in ColumnInfos}

RowLists == {Nullish} \cup {Def(r) : r \in SeqsUpTo(Rows, MaxRows)}

ResultSets ==
    {Nullish} \cup {Def([ResultSetMetadata |-> m, Rows |-> r]) : m \in Metadatas, r \in RowLists}

(***************************************************************************)
(* The state machine: one action per public method                         *)
(***************************************************************************)

\* A call: the method and the arguments it takes (the others keep the
\* values they have here).
NoCall ==
    [op |-> "none", columnInfo |-> <<>>, resultSet |-> Nullish, rowParser |-> "",
     row |-> Nullish, hdrs |-> <<>>]

\* What a call returned: threw (a TypeError), or the field of its return type:
\* headers (getHeaders, headersFromMeta), rows (parseResultSet, and rowToObject
\* as a one-record list), results and the number of rowParser applications
\* (parseResultSetWith), isHeader (isHeaderRow).
NoRet ==
    [threw |-> FALSE, headers |-> Nullish, rows |-> <<>>, results |-> <<>>,
     calls |-> 0, isHeader |-> FALSE]

\* The caller is between two calls.
Idle == call = NoCall

Init ==
    /\ headers = NewParser.headers
    /\ headerRowDropped = NewParser.headerRowDropped
    /\ call = NoCall
    /\ ret = NoRet
    /\ pre = NewParser
    /\ fresh = NewParser
    /\ freshRet = NoRet
    /\ sessionDrops = 0
    /\ lifetimeDrops = 0
    /\ resets = 0
    /\ established = FALSE

InitHeaders(columnInfo) ==
    /\ Idle
    /\ headers' = initHeaders(This, columnInfo).headers
    /\ headerRowDropped' = initHeaders(This, columnInfo).headerRowDropped
    /\ call' = [NoCall EXCEPT !.op = "initHeaders", !.columnInfo = columnInfo]
    /\ ret' = NoRet
    /\ pre' = This
    /\ fresh' = initHeaders(fresh, columnInfo)
    /\ freshRet' = NoRet
    /\ established' = (established \/ Len(columnInfo) > 0)
    /\ UNCHANGED <<sessionDrops, lifetimeDrops, resets>>

GetHeaders ==
    /\ Idle
    /\ call' = [NoCall EXCEPT !.op = "getHeaders"]
    /\ ret' = [NoRet EXCEPT !.headers = getHeaders(This)]
    /\ pre' = This
    /\ freshRet' = [NoRet EXCEPT !.headers = getHeaders(fresh)]
    /\ UNCHANGED <<headers, headerRowDropped, fresh, sessionDrops, lifetimeDrops, resets,
                   established>>

\* The batch names no column: its metadata is absent, or the metadata's
\* column list is absent or empty.
NoColumns(resultSet) ==
    \/ Val(resultSet).ResultSetMetadata = Nullish
    \/ Val(Val(resultSet).ResultSetMetadata).ColumnInfo \in {Nullish, Def(<<>>)}

\* What parseResultSet returned or threw.
RowsRet(result) == [NoRet EXCEPT !.threw = result.threw, !.rows = result.value]

ParseResultSet(resultSet) ==
    /\ Idle
    /\ \E o \in {parseResultSet(This, resultSet)}, fo \in {parseResultSet(fresh, resultSet)} :
        /\ headers' = o.parser.headers
        /\ headerRowDropped' = o.parser.headerRowDropped
        /\ call' = [NoCall EXCEPT !.op = "parseResultSet", !.resultSet = resultSet]
        /\ ret' = RowsRet(o.result)
        /\ pre' = This
        /\ fresh' = fo.parser
        /\ freshRet' = RowsRet(fo.result)
        /\ sessionDrops' = sessionDrops + o.dropped
        /\ lifetimeDrops' = lifetimeDrops + o.dropped
        /\ established' = (established \/ (resultSet # Nullish /\ ~NoColumns(resultSet)))
        /\ UNCHANGED resets

\* What parseResultSetWith returned or threw.
ResultsRet(result) ==
    [NoRet EXCEPT !.threw = result.threw, !.results = result.value, !.calls = result.calls]

ParseResultSetWith(resultSet, rowParser) ==
    /\ Idle
    /\ \E o \in {parseResultSetWith(This, resultSet, rowParser)},
          fo \in {parseResultSetWith(fresh, resultSet, rowParser)} :
        /\ headers' = o.parser.headers
        /\ headerRowDropped' = o.parser.headerRowDropped
        /\ call' = [NoCall EXCEPT !.op = "parseResultSetWith", !.resultSet = resultSet,
                                  !.rowParser = rowParser]
        /\ ret' = ResultsRet(o.result)
        /\ pre' = This
        /\ fresh' = fo.parser
        /\ freshRet' = ResultsRet(fo.result)
        /\ sessionDrops' = sessionDrops + o.dropped
        /\ lifetimeDrops' = lifetimeDrops + o.dropped
        /\ established' = (established \/ (resultSet # Nullish /\ ~NoColumns(resultSet)))
        /\ UNCHANGED resets

Reset ==
    /\ Idle
    /\ resets < MaxResets
    /\ headers' = reset(This).headers
    /\ headerRowDropped' = reset(This).headerRowDropped
    /\ call' = [NoCall EXCEPT !.op = "reset"]
    /\ ret' = NoRet
    /\ pre' = This
    /\ fresh' = NewParser
    /\ freshRet' = NoRet
    /\ sessionDrops' = 0
    /\ resets' = resets + 1
    /\ established' = FALSE
    /\ UNCHANGED lifetimeDrops

\* The caller takes the result and goes on to its next call.
Return ==
    /\ ~Idle
    /\ call' = NoCall
    /\ ret' = NoRet
    /\ pre' = This
    /\ freshRet' = NoRet
    /\ UNCHANGED <<headers, headerRowDropped, fresh, sessionDrops, lifetimeDrops, resets,
                   established>>

Next ==
    \/ Idle /\ \E columnInfo \in ColumnInfos : InitHeaders(columnInfo)
    \/ Idle /\ GetHeaders
    \/ Idle /\ \E resultSet \in ResultSets : ParseResultSet(resultSet)
    \/ Idle /\ \E resultSet \in ResultSets, rowParser \in RowParsers :
                  ParseResultSetWith(resultSet, rowParser)
    \/ Idle /\ Reset
    \/ Return

Spec == Init /\ [][Next]_vars

(***************************************************************************)
(* Claims about the parser instance, checked under Spec                    *)
(***************************************************************************)

ParseOps == {"parseResultSet", "parseResultSetWith"}

\* The raw rows of the last call's result set.
CallRows == RawRows(call.resultSet)

\* C1: within a session (no reset), once the headers are non-null no call
\* changes them: after every initHeaders, getHeaders, parseResultSet or
\* parseResultSetWith call that started with headers set, the headers are the
\* ones the call started with, whatever columns its argument names.
C1_HeaderStability ==
    (call.op \in {"initHeaders", "getHeaders"} \cup ParseOps /\ pre.headers # Nullish)
        => headers = pre.headers

\* C1 witness: a parse call on a parser with headers whose metadata has
\* another number of columns, or an initHeaders call naming other columns.
C1_Witness ==
    \/ /\ call.op = "parseResultSet"
       /\ call.resultSet # Nullish
       /\ pre.headers # Nullish
       /\ Len(MetaColumns(call.resultSet)) > 0
       /\ Len(MetaColumns(call.resultSet)) # Len(Val(pre.headers))
       /\ Len(CallRows) > 0
    \/ /\ call.op = "initHeaders"
       /\ pre.headers # Nullish
       /\ Len(call.columnInfo) = Len(Val(pre.headers))
       /\ headersFromMeta(call.columnInfo) # Val(pre.headers)

\* C2: in a session at most one row is dropped as a header row, and a
\* parseResultSet call made after the drop whose first row equals the headers
\* returns every row of the batch decoded, that first row included.
C2_SingleSuppression ==
    /\ sessionDrops <= 1
    /\ ( /\ call.op = "parseResultSet"
         /\ pre.headers # Nullish
         /\ pre.headerRowDropped
         /\ call.resultSet # Nullish
         /\ Len(CallRows) > 0
         /\ isHeaderRow(CallRows[1], Val(pre.headers)) )
       => ( /\ ~ret.threw
            /\ Len(ret.rows) = Len(CallRows)
            /\ Returned(ret.rows[1]) = rowToObject(CallRows[1], Val(pre.headers)) )

C4_ResetEqualsFresh ==
    resets > 0 => (This = fresh /\ ret = freshRet)

\* C4 witness: after a session that dropped a header row, and a reset, a
\* parse call derives headers again and drops a row again.
C4_Witness ==
    /\ resets > 0
    /\ call.op = "parseResultSet"
    /\ pre = NewParser
    /\ headerRowDropped
    /\ lifetimeDrops = 2
    /\ ~ret.threw
    /\ Len(ret.rows) > 0

\* rows.map(rowParser) with the null results removed, written with SelectSeq.
FilterMap(rowParser, rows) ==
    LET mapped == [k \in 1..Len(rows) |-> ApplyRowParser(rowParser, rows[k])]
        kept == SelectSeq(mapped, LAMBDA x : x # Nullish)
    IN  [k \in 1..Len(kept) |-> Val(kept[k])]

\* C5: parseResultSetWith(batch, f) throws exactly when parseResultSet(batch)
\* would in the same state; otherwise it returns f applied to each record
\* parseResultSet would return, in order, without the null results, applies f
\* once per record, and leaves the parser as parseResultSet would.
C5_WithIsFilteredMap ==
    call.op = "parseResultSetWith" =>
        \E o \in {parseResultSet(pre, call.resultSet)} :
            /\ This = o.parser
            /\ ret.threw = o.result.threw
            /\ ~ret.threw =>
                  /\ ret.results = FilterMap(call.rowParser, o.result.value)
                  /\ ret.calls = Len(o.result.value)

\* C5 witness: of two records the first is skipped and the second is kept.
C5_Witness ==
    /\ call.op = "parseResultSetWith"
    /\ call.rowParser = "valueOfA"
    /\ ~ret.threw
    /\ ret.calls = 2
    /\ Len(ret.results) = 1
    /\ ApplyRowParser("valueOfA", parseResultSet(pre, call.resultSet).result.value[1]) = Nullish

\* C6: parseResultSet(undefined) returns the empty sequence and leaves the
\* headers and the header-row-dropped flag as they were.
C6_AbsentBatch ==
    (call.op = "parseResultSet" /\ call.resultSet = Nullish)
        => (ret = NoRet /\ This = pre)

\* C6 witness: the call is made with headers set and the flag true.
C6_Witness ==
    /\ call.op = "parseResultSet"
    /\ call.resultSet = Nullish
    /\ pre.headers # Nullish
    /\ pre.headerRowDropped

\* C7: parseResultSet never throws, whatever the batch.
C7_NeverThrows ==
    call.op = "parseResultSet" => ~ret.threw

\* This call changed the header-row-dropped flag from false to true.
FlagSet == ~pre.headerRowDropped /\ headerRowDropped

\* The first row of the last call's batch is a header duplicate of the stored
\* headers (the headers after the call's initialization step).
FirstRowIsHeader ==
    /\ call.resultSet # Nullish
    /\ headers # Nullish
    /\ Len(CallRows) > 0
    /\ isHeaderRow(CallRows[1], Val(headers))

\* C12: a parseResultSet call after whose initialization step the headers are
\* set returns one record per non-suppressed row, in input order: with d = 1
\* if the call suppresses its first row and d = 0 otherwise, the result has
\* length len(rows) - d and result[k] is rowToObject(rows[k + d], headers),
\* so that no row at a position other than 0 is ever dropped.
C12_OrderedDecode ==
    (call.op = "parseResultSet" /\ call.resultSet # Nullish /\ headers # Nullish) =>
        \E d \in {IF FlagSet THEN 1 ELSE 0} :
            /\ ~ret.threw
            /\ Len(ret.rows) = Len(CallRows) - d
            /\ \A k \in 1..Len(ret.rows) :
                  Returned(ret.rows[k]) = rowToObject(CallRows[k + d], Val(headers))

\* C13: a parse call sets the flag exactly when the flag was false, the batch
\* has rows and its first row is a header duplicate of the stored headers,
\* and that call leaves row 0 out of what it decodes; initHeaders, getHeaders
\* and every other parse call leave the flag as it was, and only reset clears
\* a set flag.
C13_FlagFrame ==
    /\ call.op \in ParseOps =>
          (FlagSet <=> (~pre.headerRowDropped /\ FirstRowIsHeader))
    /\ (call.op = "parseResultSet" /\ FlagSet /\ ~ret.threw) =>
          /\ Len(ret.rows) = Len(CallRows) - 1
          /\ \A k \in 1..Len(ret.rows) :
                Returned(ret.rows[k]) = rowToObject(CallRows[k + 1], Val(headers))
    /\ (call.op = "parseResultSetWith" /\ FlagSet /\ ~ret.threw) =>
          ret.calls = Len(CallRows) - 1
    /\ (call.op \in ParseOps /\ FlagSet) => sessionDrops = 1
    /\ (call.op \in ParseOps /\ ~FlagSet) => headerRowDropped = pre.headerRowDropped
    /\ call.op \in {"initHeaders", "getHeaders"} => headerRowDropped = pre.headerRowDropped
    /\ (pre.headerRowDropped /\ ~headerRowDropped) => call.op = "reset"

\* C13 witness: a parse call that derives its headers from its own metadata
\* sets the flag on a batch of two rows and returns the second one.
C13_Witness ==
    /\ call.op = "parseResultSet"
    /\ pre = NewParser
    /\ FlagSet
    /\ Len(CallRows) = 2
    /\ ~ret.threw
    /\ Len(ret.rows) = 1

\* C14: on a parser without headers, parseResultSet of a batch that names no
\* column returns the empty sequence whatever rows the batch carries and
\* leaves the headers null and the flag false; initHeaders with an empty
\* column list leaves null headers null.
C14_StaysUninitialized ==
    /\ ( /\ call.op = "parseResultSet"
         /\ pre.headers = Nullish
         /\ call.resultSet # Nullish
         /\ NoColumns(call.resultSet) )
       => (ret = NoRet /\ This = NewParser)
    /\ (call.op = "initHeaders" /\ pre.headers = Nullish /\ call.columnInfo = <<>>)
       => This = NewParser

\* C14 witness: the batch without metadata carries a row that looks like a
\* header row and an undefined row.
C14_Witness ==
    /\ call.op = "parseResultSet"
    /\ pre.headers = Nullish
    /\ call.resultSet # Nullish
    /\ Val(call.resultSet).ResultSetMetadata = Nullish
    /\ Len(CallRows) = 2
    /\ ~NoCells(CallRows[1])
    /\ CallRows[2] = Nullish
    /\ ret = NoRet

\* C15: a parseResultSet call on a parser that already has headers keeps
\* them, detects the header row against them and returns one record per
\* remaining row decoded with them, whatever metadata the batch carries
\* (absent, empty, or naming other columns).
C15_StoredHeadersUsed ==
    (call.op = "parseResultSet" /\ pre.headers # Nullish /\ call.resultSet # Nullish) =>
        \E d \in {IF FlagSet THEN 1 ELSE 0} :
            /\ headers = pre.headers
            /\ FlagSet <=> ( /\ ~pre.headerRowDropped
                             /\ Len(CallRows) > 0
                             /\ isHeaderRow(CallRows[1], Val(pre.headers)) )
            /\ ~ret.threw
            /\ Len(ret.rows) = Len(CallRows) - d
            /\ \A k \in 1..Len(ret.rows) :
                  Returned(ret.rows[k]) = rowToObject(CallRows[k + d], Val(pre.headers))

\* C16: getHeaders returns null exactly when no header list has been
\* established since construction or the last reset, returns the stored
\* header list otherwise, and changes neither the headers nor the flag.
C16_GetHeaders ==
    call.op = "getHeaders" =>
        /\ ret.headers = Nullish <=> ~established
        /\ ret.headers = pre.headers
        /\ This = pre

\* C16 witness: after a session that established headers and a reset,
\* getHeaders returns null.
C16_Witness ==
    /\ call.op = "getHeaders"
    /\ resets > 0
    /\ lifetimeDrops > 0
    /\ ~established
    /\ ret.headers = Nullish

\* C17: in every reachable state the header-row-dropped flag is true only if
\* the headers are non-null.
C17_FlagImpliesHeaders == headerRowDropped => headers # Nullish

\* C17 witness: reset is called with the flag set, and clears the flag
\* together with the headers.
C17_Witness ==
    /\ call.op = "reset"
    /\ pre.headerRowDropped
    /\ pre.headers # Nullish
    /\ headers = Nullish
    /\ ~headerRowDropped

\* C18: in every reachable state the stored header list is null or has at
\* least one header, so a parse call that drops its first row does so
\* against a non-empty header list whose first header the row's first cell
\* carries, never by the vacuous match of an empty list.
C18_HeadersNonEmpty ==
    /\ headers # Nullish => Len(Val(headers)) >= 1
    /\ pre.headers # Nullish => Len(Val(pre.headers)) >= 1
    /\ (call.op \in ParseOps /\ FlagSet) =>
          /\ Len(Val(headers)) >= 1
          /\ CellValue(CallRows[1], 0) = Def(Val(headers)[1])

\* C18 witness: a batch with an empty column list and a first row that has
\* cells is parsed on a parser without headers; the headers stay null and no
\* row is dropped.
C18_Witness ==
    /\ call.op = "parseResultSet"
    /\ pre.headers = Nullish
    /\ call.resultSet # Nullish
    /\ Val(call.resultSet).ResultSetMetadata = Def([ColumnInfo |-> Def(<<>>)])
    /\ Len(CallRows) > 0
    /\ ~NoCells(CallRows[1])
    /\ headers = Nullish
    /\ ~headerRowDropped

(***************************************************************************)
(* The static helpers called on their own (they are exported as free       *)
(* functions): a second specification whose calls are the helpers.         *)
(***************************************************************************)

StaticNames == {"", "a", "b"}
StaticOptNames == {Nullish} \cup {Def(n) : n \in StaticNames}

\* ColumnInfo[] whose entries may be undefined and whose Name may be missing
\* or the empty string.
StaticColumnInfos ==
    SeqsUpTo({Nullish} \cup {Def([Name |-> n]) : n \in StaticOptNames}, MaxCols)

StaticHeaders == SeqsUpTo(StaticNames, MaxCols)

\* Rows whose Data entries may be undefined.
StaticRows ==
    {Nullish, Def([Data |-> Nullish])}
        \cup {Def([Data |-> Def(d)]) :
                d \in SeqsUpTo({Nullish} \cup {Def([VarCharValue |-> v]) : v \in StaticOptNames},
                               MaxCells)}

HeadersFromMeta(columnInfo) ==
    /\ Idle
    /\ call' = [NoCall EXCEPT !.op = "headersFromMeta", !.columnInfo = columnInfo]
    /\ ret' = [NoRet EXCEPT !.headers = Def(headersFromMeta(columnInfo))]
    /\ UNCHANGED <<headers, headerRowDropped, pre, fresh, freshRet,
                   sessionDrops, lifetimeDrops, resets, established>>

RowToObject(row, hdrs) ==
    /\ Idle
    /\ call' = [NoCall EXCEPT !.op = "rowToObject", !.row = row, !.hdrs = hdrs]
    /\ \E o \in {rowToObject(row, hdrs)} :
          ret' = [NoRet EXCEPT !.threw = o.threw,
                               !.rows = IF o.threw THEN <<>> ELSE <<o.value>>]
    /\ UNCHANGED <<headers, headerRowDropped, pre, fresh, freshRet,
                   sessionDrops, lifetimeDrops, resets, established>>

IsHeaderRow(row, hdrs) ==
    /\ Idle
    /\ call' = [NoCall EXCEPT !.op = "isHeaderRow", !.row = row, !.hdrs = hdrs]
    /\ ret' = [NoRet EXCEPT !.isHeader = isHeaderRow(row, hdrs)]
    /\ UNCHANGED <<headers, headerRowDropped, pre, fresh, freshRet,
                   sessionDrops, lifetimeDrops, resets, established>>

NextStatic ==
    \/ Idle /\ \E columnInfo \in StaticColumnInfos : HeadersFromMeta(columnInfo)
    \/ Idle /\ \E row \in StaticRows, hdrs \in StaticHeaders : RowToObject(row, hdrs)
    \/ Idle /\ \E row \in StaticRows, hdrs \in StaticHeaders : IsHeaderRow(row, hdrs)
    \/ Return

SpecStatic == Init /\ [][NextStatic]_vars

(***************************************************************************)
(* Claims about the static helpers, checked under SpecStatic               *)
(***************************************************************************)

\* C8 as stated: headersFromMeta returns one header per column, in order: the
\* column's name when it is present and non-empty, col_<i> when it is absent
\* or empty.
C8_PlaceholderForAbsentOrEmpty ==
    call.op = "headersFromMeta" =>
        /\ Len(Val(ret.headers)) = Len(call.columnInfo)
        /\ \A i \in 1..Len(call.columnInfo) :
              Val(ret.headers)[i] =
                  IF ColName(call.columnInfo[i]) \in {Nullish, Def("")}
                  THEN Placeholder(i - 1)
                  ELSE Val(ColName(call.columnInfo[i]))

\* C8 amended: headersFromMeta returns one header per column, in order: the
\* column's name when it is present, the empty string included, and col_<i>
\* only when the name (or the column entry) is absent.
C8_PlaceholderForAbsent ==
    call.op = "headersFromMeta" =>
        /\ Len(Val(ret.headers)) = Len(call.columnInfo)
        /\ \A i \in 1..Len(call.columnInfo) :
              \/ /\ call.columnInfo[i] # Nullish
                 /\ Val(call.columnInfo[i]).Name # Nullish
                 /\ Val(ret.headers)[i] = Val(Val(call.columnInfo[i]).Name)
              \/ /\ (call.columnInfo[i] = Nullish \/ Val(call.columnInfo[i]).Name = Nullish)
                 /\ Val(ret.headers)[i] = Placeholder(i - 1)

\* C8 witness: a column list with a missing name after an empty one.
C8_Witness ==
    /\ call.op = "headersFromMeta"
    /\ Len(call.columnInfo) = 2
    /\ call.columnInfo[1] = Def([Name |-> Def("")])
    /\ call.columnInfo[2] = Def([Name |-> Nullish])
    /\ ret.headers = Def(<<"", "col_1">>)

\* C9: for a row object, rowToObject returns a record in which, for every
\* header position i, the entry under headers[i] is the row's cell value at
\* i, or null when the row has no value there (no Data, a shorter Data, an
\* undefined cell, a cell without VarCharValue); cells past the last header
\* add no entry.
C9_PositionalDecode ==
    (call.op = "rowToObject" /\ call.row # Nullish) =>
        /\ ~ret.threw
        /\ \A i \in 1..Len(call.hdrs) :
              \E k \in 1..Len(ret.rows[1]) :
                  /\ ret.rows[1][k].key = call.hdrs[i]
                  /\ ret.rows[1][k].value = CellValue(call.row, i - 1)
        /\ \A k \in 1..Len(ret.rows[1]) :
              \E i \in 1..Len(call.hdrs) : ret.rows[1][k].key = call.hdrs[i]

\* C10: the record rowToObject returns has exactly len(headers) entries, also
\* when two header positions carry the same name.
C10_OneEntryPerPosition ==
    (call.op = "rowToObject" /\ ~ret.threw)
        => Len(ret.rows[1]) = Len(call.hdrs)

\* C11: isHeaderRow(row, headers) is true if and only if the row has at least
\* one cell and, at every header position i, the row's cell value at i (null
\* when the cell or its value is absent) is exactly headers[i]; a row without
\* cells gives false, against an empty header list too.
C11_HeaderRowIff ==
    call.op = "isHeaderRow" =>
        (ret.isHeader <=>
            /\ call.row # Nullish
            /\ Val(call.row).Data # Nullish
            /\ Len(Val(Val(call.row).Data)) >= 1
            /\ \A i \in 1..Len(call.hdrs) :
                  CellValue(call.row, i - 1) = Def(call.hdrs[i]))

\* C11 witness: a row whose Data is empty is not a header row of the empty
\* header list.
C11_Witness ==
    /\ call.op = "isHeaderRow"
    /\ call.row = Def([Data |-> Def(<<>>)])
    /\ call.hdrs = <<>>
    /\ ~ret.isHeader

====
